---- MODULE Spec2Model ----
(***************************************************************************)
(* A model of robust_generator.py: RobustFastAPIGenerator and main().      *)
(*                                                                         *)
(* Texts (source code, model output, file contents) are sequences of      *)
(* one-character strings, so that strip(), re.sub(), startswith() and the  *)
(* slices of enhance_with_llm work on characters as they do in Python.     *)
(***************************************************************************)
EXTENDS Integers, Sequences, FiniteSets, TLC

(***************************************************************************)
(* Bounds                                                                  *)
(***************************************************************************)
\* the longest code body of a model output, counted in BodyChunks
MaxBody == 3

(***************************************************************************)
(* Text literals                                                           *)
(***************************************************************************)
NL == "\n"
SP == " "
\* the backquote character, written as a stand-in the lexer accepts in a string
BQ == "^"

\* the characters str.strip() removes that occur in the modelled alphabet
Whitespace == {SP, NL}

ThinkOpen == <<"<", "t", "h", "i", "n", "k", ">">>
ThinkClose == <<"<", "/", "t", "h", "i", "n", "k", ">">>
Fence == <<BQ, BQ, BQ>>
FencePython == <<BQ, BQ, BQ, "p", "y", "t", "h", "o", "n">>
FencePy == <<BQ, BQ, BQ, "p", "y">>

(***************************************************************************)
(* str methods and re.sub, on sequences of characters                      *)
(***************************************************************************)
StartsWith(s, prefix) ==
    /\ Len(prefix) <= Len(s)
    /\ SubSeq(s, 1, Len(prefix)) = prefix

EndsWith(s, suffix) ==
    /\ Len(suffix) <= Len(s)
    /\ SubSeq(s, Len(s) - Len(suffix) + 1, Len(s)) = suffix

\* s[n:]
DropFirst(s, n) == SubSeq(s, n + 1, Len(s))

\* s[:-n]
DropLast(s, n) == SubSeq(s, 1, Len(s) - n)

RECURSIVE LStrip(_)
LStrip(s) ==
    IF s # <<>> /\ Head(s) \in Whitespace THEN LStrip(Tail(s)) ELSE s

RECURSIVE RStrip(_)
RStrip(s) ==
    IF s # <<>> /\ s[Len(s)] \in Whitespace THEN RStrip(DropLast(s, 1)) ELSE s

\* str.strip()
Strip(s) == RStrip(LStrip(s))

\* the index at which the first occurrence of pat in s at or after index
\* from starts, 0 when there is none
RECURSIVE Find(_, _, _)
Find(s, pat, from) ==
    IF from + Len(pat) - 1 > Len(s) THEN 0
    ELSE IF SubSeq(s, from, from + Len(pat) - 1) = pat THEN from
    ELSE Find(s, pat, from + 1)

\* re.sub(<think>.*?</think>, empty, s, DOTALL): scanning from the
\* left, every <think> that has a </think> after it is removed together with
\* the shortest text up to that </think>; scanning resumes after the match,
\* the result is not scanned again
RECURSIVE RemoveThink(_)
RemoveThink(s) ==
    IF s = <<>> THEN <<>>
    ELSE IF StartsWith(s, ThinkOpen)
               /\ Find(s, ThinkClose, Len(ThinkOpen) + 1) # 0
         THEN RemoveThink(DropFirst(s,
                  Find(s, ThinkClose, Len(ThinkOpen) + 1) + Len(ThinkClose) - 1))
         ELSE <<Head(s)>> \o RemoveThink(Tail(s))

\* lines 152-155: one leading delimiter, the python-tagged fence tried before the bare one
StripFencePrefix(s) ==
    IF StartsWith(s, FencePython) THEN DropFirst(s, 9)
    ELSE IF StartsWith(s, Fence) THEN DropFirst(s, 3)
    ELSE s

\* lines 156-157: one trailing delimiter
StripFenceSuffix(s) ==
    IF EndsWith(s, Fence) THEN DropLast(s, 3) ELSE s

\* lines 148-159, the cleaning of response.content
Sanitize(content) ==
    Strip(StripFenceSuffix(StripFencePrefix(RemoveThink(Strip(content)))))

(***************************************************************************)
(* compile(text, ..., 'exec') on the fragment of Python the modelled       *)
(* alphabet can spell: a module is a sequence of lines, each blank or an   *)
(* unindented expression  name (op name)*  with op one of  <  >  /  .      *)
(***************************************************************************)
Letters == {"a", "h", "i", "k", "n", "o", "p", "t", "x", "y"}
Operators == {"<", ">", "/"}

\* the scanner's state after one more character of a line; "bad" is a
\* SyntaxError (an IndentationError for a leading blank)
LineStep(st, c) ==
    CASE st = "bol" ->
             IF c \in Letters THEN "name"
             ELSE IF c = SP THEN "indent"
             ELSE "bad"
      [] st = "indent" ->
             IF c = SP THEN "indent" ELSE "bad"
      [] st = "name" ->
             IF c \in Letters THEN "name"
             ELSE IF c = SP THEN "name_sp"
             ELSE IF c \in Operators THEN "op"
             ELSE "bad"
      [] st = "name_sp" ->
             IF c = SP THEN "name_sp"
             ELSE IF c \in Operators THEN "op"
             ELSE "bad"
      [] st = "op" ->
             IF c \in Letters THEN "name"
             ELSE IF c = SP THEN "op"
             ELSE "bad"
      [] OTHER -> "bad"

\* scanning text from state st; a newline ends a line, which must be blank
\* or a complete expression
RECURSIVE Scan(_, _)
Scan(text, st) ==
    IF text = <<>> THEN st \in {"bol", "indent", "name", "name_sp"}
    ELSE IF Head(text) = NL
         THEN st \in {"bol", "indent", "name", "name_sp"} /\ Scan(Tail(text), "bol")
         ELSE LineStep(st, Head(text)) # "bad"
                  /\ Scan(Tail(text), LineStep(st, Head(text)))

\* TRUE when compile() returns, FALSE when it raises SyntaxError
Compiles(text) == Scan(text, "bol")

(***************************************************************************)
(* Inputs: what the model service may return, what the caller asks for     *)
(***************************************************************************)
\* no text: an unbound local, a value not returned
NoText == <<"(none)">>

\* the requirements argument of create_project
ReqTexts == {<<"a">>, <<"b", "b">>}

\* the reasoning block of output/task_manager/main.py, lines 1-2
ThinkBlock == ThinkOpen \o <<NL>> \o ThinkClose

\* what precedes the code: nothing, a reasoning block, an unterminated one
ThinkParts == {<<>>, ThinkBlock, ThinkOpen}

\* what separates the reasoning block from the code (main.py line 3 is blank)
Gaps == {<<>>, <<NL, NL>>}

\* the leading delimiter: none, bare, tagged python, tagged py
OpenFences == {<<>>, Fence \o <<NL>>, FencePython \o <<NL>>, FencePy \o <<NL>>}

\* the trailing delimiter
CloseFences == {<<>>, <<NL>> \o Fence, <<NL>> \o Fence \o <<NL>>}

BodyChunks == {<<"x">>, <<NL>>, <<SP>>, Fence}

RECURSIVE BodiesUpTo(_)
BodiesUpTo(n) ==
    IF n = 0 THEN {<<>>}
    ELSE BodiesUpTo(n - 1) \cup {b \o c : b \in BodiesUpTo(n - 1), c \in BodyChunks}

\* response.content when one invocation runs
ModelOutputs ==
    {t \o g \o o \o b \o c :
        t \in ThinkParts, g \in Gaps, o \in OpenFences,
        b \in BodiesUpTo(MaxBody), c \in CloseFences}

\* response.content when several invocations run side by side: a valid
\* source, and a longer valid source in fences
ConcurrentOutputs ==
    {<<"x">>, FencePython \o <<NL, "x", SP, "<", SP, "y", NL>> \o Fence}

\* the faults llm.invoke raises: backend unreachable, backend error; both
\* are subclasses of Exception
ModelFaults == {"ConnectivityFault", "ServiceFault"}

(***************************************************************************)
(* Files                                                                   *)
(***************************************************************************)
Files == {"main.py", "requirements.txt", "README.md"}

\* lines 28-123: the fixed template, which stands here as one name
template == <<"a", "p", "p">>

\* lines 197-201
requirements_txt == <<"r">>

\* line 307, the project_name argument
project_name == <<"p">>

\* lines 211-243, the fixed sections after the requirements text
readme_sections == <<"F">>

\* lines 207-245
Readme(name, req) == <<"#">> \o name \o <<NL>> \o req \o <<NL>> \o readme_sections

\* a write of new at offset 0 of a file holding old: what lies beyond the
\* written bytes stays
Overlay(old, new) == new \o DropFirst(old, Len(new))

VARIABLES
    procs,          \* the invocations of main() that run
    pc,             \* where each invocation is
    requirements,   \* create_project's argument
    base_code, response, enhanced_code, retval,   \* enhance_with_llm
    final_code,     \* create_project's local
    exc,            \* the exception in flight
    fs,             \* output/<project_name> on disk, shared
    code,           \* what test_project read
    stdout,         \* what each invocation printed
    project_path,   \* what create_project returned
    exit_status,    \* the process's exit status
    faults,         \* history: the failures that occurred
    lastWrite,      \* history: per file, its last writer and whether the write was undisturbed
    interfered      \* history: per invocation, the files another wrote since it opened them

vars == <<procs, pc, requirements, base_code, response, enhanced_code, retval,
          final_code, exc, fs, code, stdout, project_path, exit_status, faults,
          lastWrite, interfered>>

locals == <<base_code, response, enhanced_code, retval, final_code, code>>
history == <<lastWrite, interfered>>

NoPath == "(none)"
\* the exit status of a process: none yet, 0, 1 (an uncaught exception)
Running == "running"
Exit0 == "0"
Exit1 == "1"

Line(text, detail) == [line |-> text, detail |-> detail]
Say(p, lines) == stdout' = [stdout EXCEPT ![p] = @ \o lines]
Goto(p, where) == pc' = [pc EXCEPT ![p] = where]
Raise(p, kind) == exc' = [exc EXCEPT ![p] = kind]
Record(p, step, kind, diag) ==
    faults' = [faults EXCEPT ![p] = @ \cup {[step |-> step, kind |-> kind, diag |-> diag]}]

InitFor(P, R) ==
    /\ procs = P
    /\ pc = [p \in P |-> "main"]
    /\ requirements \in R
    /\ base_code = [p \in P |-> NoText]
    /\ response = [p \in P |-> NoText]
    /\ enhanced_code = [p \in P |-> NoText]
    /\ retval = [p \in P |-> NoText]
    /\ final_code = [p \in P |-> NoText]
    /\ exc = [p \in P |-> "None"]
    /\ fs = [dir |-> FALSE, present |-> {}, files |-> [f \in Files |-> <<>>], venv |-> FALSE]
    /\ code = [p \in P |-> NoText]
    /\ stdout = [p \in P |-> <<>>]
    /\ project_path = [p \in P |-> NoPath]
    /\ exit_status = [p \in P |-> Running]
    /\ faults = [p \in P |-> {}]
    /\ lastWrite = [f \in Files |-> [writer |-> 0, clean |-> TRUE]]
    /\ interfered = [p \in P |-> {}]

\* one run of the script
Init == InitFor({1}, [{1} -> ReqTexts])

\* two runs of the script side by side, same project name, each with its
\* own requirements text
InitConcurrent == InitFor({1, 2}, {<<<<"a">>, <<"b", "b">>>>})

(***************************************************************************)
(* main() and RobustFastAPIGenerator.__init__                              *)
(***************************************************************************)
\* lines 297, 16-23: constructing the generator; ChatOllama(...) is not
\* guarded, what it raises leaves main()
Construct(p) ==
    /\ pc[p] = "main"
    /\ \/ /\ Say(p, <<Line("Initializing", ""), Line("Generator ready", "")>>)
          /\ Goto(p, "create_project")
          /\ UNCHANGED <<exc, faults>>
       \/ /\ Say(p, <<Line("Initializing", "")>>)
          /\ Raise(p, "ConstructionFault")
          /\ Record(p, "construct", "ConstructionFault", "")
          /\ Goto(p, "main_unwind")
    /\ UNCHANGED <<procs, requirements, locals, fs, project_path, exit_status, history>>

\* main() wrapped in a handler that swallows the exception: exit status 0
MainUncaught_ExitsZero(p) ==
    /\ pc[p] = "main_unwind"
    /\ exit_status' = [exit_status EXCEPT ![p] = Exit0]
    /\ Goto(p, "exited")
    /\ UNCHANGED <<procs, requirements, locals, exc, fs, stdout, project_path,
                   faults, history>>

\* an exception leaves main(): the interpreter prints the traceback on
\* stderr and the process exits with status 1
MainUncaught(p) ==
    /\ pc[p] = "main_unwind"
    /\ exit_status' = [exit_status EXCEPT ![p] = Exit1]
    /\ Goto(p, "exited")
    /\ UNCHANGED <<procs, requirements, locals, exc, fs, stdout, project_path,
                   faults, history>>

\* lines 308-312, 316: main() prints and returns, the process exits 0
MainPrint(p) ==
    /\ pc[p] = "main_print"
    /\ Say(p, <<Line("Project created at", project_path[p])>>)
    /\ exit_status' = [exit_status EXCEPT ![p] = Exit0]
    /\ Goto(p, "exited")
    /\ UNCHANGED <<procs, requirements, locals, exc, fs, project_path, faults, history>>

(***************************************************************************)
(* create_project, up to the call of enhance_with_llm                      *)
(***************************************************************************)
\* lines 178-183: the two prints, then project_path.mkdir(parents=True,
\* exist_ok=True), not guarded
Mkdir(p) ==
    /\ pc[p] = "create_project"
    /\ Say(p, <<Line("Creating project", ""), Line("Requirements", "")>>)
    /\ \/ /\ fs' = [fs EXCEPT !.dir = TRUE]
          /\ Goto(p, "template")
          /\ UNCHANGED <<exc, faults>>
       \/ /\ Raise(p, "FilesystemFault")
          /\ Record(p, "mkdir", "FilesystemFault", "")
          /\ Goto(p, "main_unwind")
          /\ UNCHANGED fs
    /\ UNCHANGED <<procs, requirements, locals, project_path, exit_status, history>>

\* lines 25-124: the template, whatever the requirements
create_working_fastapi_app(req) == template

\* line 186
Template(p) ==
    /\ pc[p] = "template"
    /\ base_code' = [base_code EXCEPT ![p] = create_working_fastapi_app(requirements[p])]
    /\ Goto(p, "invoke")
    /\ UNCHANGED <<procs, requirements, response, enhanced_code, retval, final_code,
                   exc, fs, code, stdout, project_path, exit_status, faults, history>>

(***************************************************************************)
(* enhance_with_llm                                                        *)
(***************************************************************************)
Outputs == IF Cardinality(procs) = 1 THEN ModelOutputs ELSE ConcurrentOutputs

\* lines 171-174 returning the cleaned text, unbound when the call failed
EnhExcept_ReturnsEnhanced(p, fault) ==
    /\ Say(p, <<Line("Enhancing with LLM", ""), Line("Enhancement failed", fault),
                Line("Using base template instead", "")>>)
    /\ retval' = [retval EXCEPT ![p] = enhanced_code[p]]
    /\ Goto(p, "enh_return")
    /\ UNCHANGED exc

\* lines 171-174: except Exception, which every fault of the call is; the
\* base code is returned
EnhExcept(p, fault) ==
    /\ Say(p, <<Line("Enhancing with LLM", ""), Line("Enhancement failed", fault),
                Line("Using base template instead", "")>>)
    /\ retval' = [retval EXCEPT ![p] = base_code[p]]
    /\ Goto(p, "enh_return")
    /\ UNCHANGED exc

\* lines 143-145, 171-174: the call of the model, which returns a text or
\* raises into the except clause
Invoke(p) ==
    /\ pc[p] = "invoke"
    /\ \/ /\ \E content \in Outputs : response' = [response EXCEPT ![p] = content]
          /\ Say(p, <<Line("Enhancing with LLM", "")>>)
          /\ Goto(p, "clean")
          /\ UNCHANGED <<exc, faults, retval>>
       \/ /\ \E fault \in ModelFaults :
                /\ Record(p, "invoke", fault, "")
                /\ EnhExcept(p, fault)
          /\ UNCHANGED response
    /\ UNCHANGED <<procs, requirements, base_code, enhanced_code, final_code,
                   fs, code, project_path, exit_status, history>>

\* lines 147-159
Clean(p) ==
    /\ pc[p] = "clean"
    /\ enhanced_code' = [enhanced_code EXCEPT ![p] = Sanitize(response[p])]
    /\ Goto(p, "validate")
    /\ UNCHANGED <<procs, requirements, base_code, response, retval, final_code,
                   exc, fs, code, stdout, project_path, exit_status, faults, history>>

\* lines 161-169 with the validation left out: the cleaned text is returned
Validate_Unchecked(p) ==
    /\ pc[p] = "validate"
    /\ Say(p, <<Line("Enhanced code is valid", "")>>)
    /\ retval' = [retval EXCEPT ![p] = enhanced_code[p]]
    /\ Goto(p, "enh_return")
    /\ UNCHANGED <<procs, requirements, base_code, response, enhanced_code, final_code,
                   exc, fs, code, project_path, exit_status, faults, history>>

\* lines 161-169: compile(); the text when it compiles, on SyntaxError the
\* base code
Validate(p) ==
    /\ pc[p] = "validate"
    /\ IF Compiles(enhanced_code[p])
       THEN /\ Say(p, <<Line("Enhanced code is valid", "")>>)
            /\ retval' = [retval EXCEPT ![p] = enhanced_code[p]]
            /\ UNCHANGED faults
       ELSE /\ Say(p, <<Line("Enhanced code has syntax error", "invalid syntax"),
                        Line("Using base template instead", "")>>)
            /\ retval' = [retval EXCEPT ![p] = base_code[p]]
            /\ Record(p, "validate", "SyntaxError", "invalid syntax")
    /\ Goto(p, "enh_return")
    /\ UNCHANGED <<procs, requirements, base_code, response, enhanced_code, final_code,
                   exc, fs, code, project_path, exit_status, history>>

\* line 189: the call returns into final_code; enhance_with_llm's locals
\* are gone
EnhReturn(p) ==
    /\ pc[p] = "enh_return"
    /\ final_code' = [final_code EXCEPT ![p] = retval[p]]
    /\ response' = [response EXCEPT ![p] = NoText]
    /\ enhanced_code' = [enhanced_code EXCEPT ![p] = NoText]
    /\ retval' = [retval EXCEPT ![p] = NoText]
    /\ Goto(p, "open_main.py")
    /\ UNCHANGED <<procs, requirements, base_code, exc, fs, code, stdout,
                   project_path, exit_status, faults, history>>

(***************************************************************************)
(* create_project, the three files                                         *)
(***************************************************************************)
OpenPc(f) ==
    CASE f = "main.py" -> "open_main.py"
      [] f = "requirements.txt" -> "open_requirements.txt"
      [] f = "README.md" -> "open_README.md"

WritePc(f) ==
    CASE f = "main.py" -> "write_main.py"
      [] f = "requirements.txt" -> "write_requirements.txt"
      [] f = "README.md" -> "write_README.md"

\* the README left out: test_project follows requirements.txt
AfterPc_SkipReadme(f) ==
    CASE f = "main.py" -> "open_requirements.txt"
      [] f = "requirements.txt" -> "test_project"
      [] f = "README.md" -> "test_project"

\* where create_project goes on after the with block of f
AfterPc(f) ==
    CASE f = "main.py" -> OpenPc("requirements.txt")
      [] f = "requirements.txt" -> OpenPc("README.md")
      [] f = "README.md" -> "test_project"

\* what create_project writes to f: lines 193, 203, 248
Content(p, f) ==
    CASE f = "main.py" -> final_code[p]
      [] f = "requirements.txt" -> requirements_txt
      [] f = "README.md" -> Readme(project_name, requirements[p])

\* an open that does not truncate: the file is created when absent and
\* keeps what it holds
OpenEffect_NoTruncate(f) ==
    [fs EXCEPT !.present = @ \cup {f}]

\* open(path, "w"): the file is created when absent and truncated
OpenEffect(f) ==
    [fs EXCEPT !.present = @ \cup {f}, !.files[f] = <<>>]

\* lines 192, 202, 247: open(project_path / f, "w"), not guarded
Open(p, f) ==
    /\ pc[p] = OpenPc(f)
    /\ \/ /\ fs' = OpenEffect(f)
          /\ interfered' = [interfered EXCEPT ![p] = @ \ {f}]
          /\ Goto(p, WritePc(f))
          /\ UNCHANGED <<exc, faults>>
       \/ /\ Raise(p, "FilesystemFault")
          /\ Record(p, OpenPc(f), "FilesystemFault", "")
          /\ Goto(p, "main_unwind")
          /\ UNCHANGED <<fs, interfered>>
    /\ UNCHANGED <<procs, requirements, locals, stdout, project_path, exit_status,
                   lastWrite>>

\* lines 193-194, 203-204, 248-249 with the failure of the write swallowed:
\* create_project goes on to the next file
Write_Swallowing(p, f) ==
    /\ pc[p] = WritePc(f)
    /\ \/ /\ fs' = [fs EXCEPT !.files[f] = Overlay(@, Content(p, f))]
          /\ Say(p, <<Line("Created", f)>>)
          /\ lastWrite' = [lastWrite EXCEPT ![f] =
                              [writer |-> p, clean |-> f \notin interfered[p]]]
          /\ interfered' = [q \in procs |->
                              IF q # p /\ pc[q] = WritePc(f)
                              THEN interfered[q] \cup {f} ELSE interfered[q]]
          /\ UNCHANGED faults
       \/ /\ Record(p, WritePc(f), "FilesystemFault", "")
          /\ UNCHANGED <<fs, stdout, history>>
    /\ Goto(p, AfterPc(f))
    /\ UNCHANGED <<procs, requirements, locals, project_path, exit_status, exc>>

\* lines 193-194, 203-204, 248-249: f.write(...) and the close of the with
\* block, which puts the text at the start of the file; not guarded
Write(p, f) ==
    /\ pc[p] = WritePc(f)
    /\ \/ /\ fs' = [fs EXCEPT !.files[f] = Overlay(@, Content(p, f))]
          /\ Say(p, <<Line("Created", f)>>)
          /\ lastWrite' = [lastWrite EXCEPT ![f] =
                              [writer |-> p, clean |-> f \notin interfered[p]]]
          /\ interfered' = [q \in procs |->
                              IF q # p /\ pc[q] = WritePc(f)
                              THEN interfered[q] \cup {f} ELSE interfered[q]]
          /\ Goto(p, AfterPc(f))
          /\ UNCHANGED <<exc, faults>>
       \/ /\ Raise(p, "FilesystemFault")
          /\ Record(p, WritePc(f), "FilesystemFault", "")
          /\ Goto(p, "main_unwind")
          /\ UNCHANGED <<fs, stdout, history>>
    /\ UNCHANGED <<procs, requirements, locals, project_path, exit_status>>

(***************************************************************************)
(* test_project                                                            *)
(***************************************************************************)
\* the stderr a failing subprocess of the step leaves in its captured output
Stderr(step) ==
    CASE step = "venv" -> "stderr of python3 -m venv"
      [] step = "pip" -> "stderr of pip install"
      [] step = "import" -> "stderr of import main"

\* str(e) of what a step raises: CalledProcessError names the command and
\* the exit status, not the captured stderr
Message(kind) ==
    CASE kind = "SyntaxError" -> "invalid syntax"
      [] kind = "CalledProcessError" -> "Command returned non-zero exit status 1"
      [] kind = "OSError" -> "No such file or directory"

\* lines 290-293 without the second clause: only SyntaxError is caught,
\* anything else leaves test_project, and create_project with it
TestExcept_SyntaxOnly(p, kind, printed) ==
    IF kind = "SyntaxError"
    THEN /\ Say(p, printed \o <<Line("Syntax error", Message(kind))>>)
         /\ Goto(p, "test_return")
         /\ UNCHANGED exc
    ELSE /\ Say(p, printed)
         /\ Raise(p, kind)
         /\ Goto(p, "main_unwind")

\* lines 290-293: except SyntaxError, then except Exception; each prints
\* str(e) and test_project returns. printed is what the step printed before
\* it raised
TestExcept(p, kind, printed) ==
    /\ IF kind = "SyntaxError"
       THEN Say(p, printed \o <<Line("Syntax error", Message(kind))>>)
       ELSE Say(p, printed \o <<Line("Test error", Message(kind))>>)
    /\ Goto(p, "test_return")
    /\ UNCHANGED exc

\* a step of the try block raises: control goes to the except clauses
Fail(p, step, kind, diag, printed) ==
    /\ Record(p, step, kind, diag)
    /\ TestExcept(p, kind, printed)

\* lines 252, 258-263: the call, the print, and the read of main.py
TestRead(p) ==
    /\ pc[p] = "test_project"
    /\ \/ /\ "main.py" \in fs.present
          /\ code' = [code EXCEPT ![p] = fs.files["main.py"]]
          /\ Say(p, <<Line("Testing generated code", "")>>)
          /\ Goto(p, "test_compile")
          /\ UNCHANGED <<exc, faults>>
       \/ /\ Fail(p, "read", "OSError", Message("OSError"),
                  <<Line("Testing generated code", "")>>)
          /\ UNCHANGED code
    /\ UNCHANGED <<procs, requirements, base_code, response, enhanced_code, retval,
                   final_code, fs, project_path, exit_status, history>>

\* lines 265-267
TestCompile(p) ==
    /\ pc[p] = "test_compile"
    /\ IF Compiles(code[p])
       THEN /\ Say(p, <<Line("Python syntax is valid", "")>>)
            /\ Goto(p, "venv")
            /\ UNCHANGED <<exc, faults>>
       ELSE Fail(p, "syntax", "SyntaxError", Message("SyntaxError"), <<>>)
    /\ UNCHANGED <<procs, requirements, locals, fs, project_path, exit_status, history>>

\* lines 269-273: subprocess.run([python3, -m, venv, ...], check=True,
\* capture_output=True); python3 exits non-zero, or cannot be started
Venv(p) ==
    /\ pc[p] = "venv"
    /\ \/ /\ fs' = [fs EXCEPT !.venv = TRUE]
          /\ Goto(p, "pip")
          /\ UNCHANGED <<exc, faults, stdout>>
       \/ /\ Fail(p, "venv", "CalledProcessError", Stderr("venv"), <<>>)
          /\ UNCHANGED fs
       \/ /\ Fail(p, "venv", "OSError", Message("OSError"), <<>>)
          /\ UNCHANGED fs
    /\ UNCHANGED <<procs, requirements, locals, project_path, exit_status, history>>

\* lines 275-278: subprocess.run([pip, install, -r, requirements.txt],
\* check=True, capture_output=True), with the pip the venv step installed
Pip(p) ==
    /\ pc[p] = "pip"
    /\ \/ /\ Goto(p, "import")
          /\ UNCHANGED <<exc, faults, stdout>>
       \/ Fail(p, "pip", "CalledProcessError", Stderr("pip"), <<>>)
    /\ UNCHANGED <<procs, requirements, locals, fs, project_path, exit_status,
                   history>>

\* lines 280-288: subprocess.run([python, -c, import main...],
\* capture_output=True, text=True) without check, then the return code
ImportTest(p) ==
    /\ pc[p] = "import"
    /\ \/ /\ Say(p, <<Line("Code imports successfully", "")>>)
          /\ UNCHANGED faults
       \/ /\ Say(p, <<Line("Import test failed", Stderr("import"))>>)
          /\ Record(p, "import", "NonZeroExit", Stderr("import"))
    /\ Goto(p, "test_return")
    /\ UNCHANGED <<procs, requirements, locals, exc, fs, project_path, exit_status,
                   history>>

\* lines 252-254, 307: test_project returns, create_project returns
\* str(project_path) to main()
TestReturn(p) ==
    /\ pc[p] = "test_return"
    /\ project_path' = [project_path EXCEPT ![p] = "output/robust_task_manager"]
    /\ Goto(p, "main_print")
    /\ UNCHANGED <<procs, requirements, locals, exc, fs, stdout, exit_status,
                   faults, history>>

(***************************************************************************)
(* Specifications                                                          *)
(***************************************************************************)
Next ==
    \/ \E p \in procs : Construct(p)
    \/ \E p \in procs : Mkdir(p)
    \/ \E p \in procs : Template(p)
    \/ \E p \in procs : Invoke(p)
    \/ \E p \in procs : Clean(p)
    \/ \E p \in procs : Validate(p)
    \/ \E p \in procs : EnhReturn(p)
    \/ \E p \in procs : \E f \in Files : Open(p, f)
    \/ \E p \in procs : \E f \in Files : Write(p, f)
    \/ \E p \in procs : TestRead(p)
    \/ \E p \in procs : TestCompile(p)
    \/ \E p \in procs : Venv(p)
    \/ \E p \in procs : Pip(p)
    \/ \E p \in procs : ImportTest(p)
    \/ \E p \in procs : TestReturn(p)
    \/ \E p \in procs : MainPrint(p)
    \/ \E p \in procs : MainUncaught(p)

\* one run of main()
Spec == Init /\ [][Next]_vars

\* two runs of main() at the same time, in the same working directory
SpecConcurrent == InitConcurrent /\ [][Next]_vars

(***************************************************************************)
(* Properties                                                              *)
(***************************************************************************)
Printed(p, text) == \E i \in 1..Len(stdout[p]) : stdout[p][i].line = text

\* create_project printed that it created each of the three files
FilesWritten(p) == \A f \in Files : \E i \in 1..Len(stdout[p]) : stdout[p][i] = Line("Created", f)

\* test_project was entered
SmokeStarted(p) ==
    \/ Printed(p, "Testing generated code")
    \/ pc[p] \in {"test_compile", "venv", "pip", "import", "test_return"}

\* the process ran to its normal end
Completed(p) == pc[p] = "exited" /\ exit_status[p] = Exit0

\* the failures that stop the delivery of the project
FatalKinds == {"ConstructionFault", "FilesystemFault"}

\* the steps of test_project
SmokeSteps == {"read", "syntax", "venv", "pip", "import"}

\* the line on which a failure is reported
WarningLine(fl) ==
    CASE fl.step = "invoke" -> "Enhancement failed"
      [] fl.step = "validate" -> "Enhanced code has syntax error"
      [] fl.step = "import" -> "Import test failed"
      [] fl.kind = "SyntaxError" -> "Syntax error"
      [] OTHER -> "Test error"

\* C1: whatever the model call does (a fault, or any text), enhance_with_llm
\* called with the template as base_code returns to its caller without an
\* exception of the call or of the validation in flight, and what it
\* returns compiles.
C1_EnhanceReturnsValidSource ==
    \A p \in procs :
        /\ exc[p] \notin ModelFaults \cup {"SyntaxError"}
        /\ base_code[p] # NoText => base_code[p] = create_working_fastapi_app(requirements[p])
        /\ pc[p] = "enh_return" => Compiles(retval[p])

\* C1 witness: the model returned a text that does not compile after
\* cleaning, and enhance_with_llm is about to return the base code
C1_Witness ==
    \E p \in procs :
        /\ pc[p] = "enh_return"
        /\ response[p] # NoText
        /\ ~Compiles(enhanced_code[p])
        /\ retval[p] = base_code[p]

\* C2: enhance_with_llm returns the cleaned model text exactly when the
\* call succeeded and the cleaned text compiles; in every other case it
\* returns its base_code argument unchanged.
C2_SanitizedIffValidElseBase ==
    \A p \in procs :
        pc[p] = "enh_return" =>
            IF response[p] # NoText /\ Compiles(Sanitize(response[p]))
            THEN retval[p] = Sanitize(response[p])
            ELSE retval[p] = base_code[p]

\* C2 witness: a text that cleaning changed and that compiles is returned
\* in place of the base code
C2_Witness ==
    \E p \in procs :
        /\ pc[p] = "enh_return"
        /\ response[p] # NoText
        /\ retval[p] = Sanitize(response[p])
        /\ retval[p] # response[p]
        /\ retval[p] # base_code[p]

\* the failures of create_project's own filesystem calls
MaterializationFaults(p) == {fl \in faults[p] : fl.kind = "FilesystemFault"}

\* C3: a filesystem fault of mkdir or of the writing of one of the three
\* files is not caught: it stays in flight out of create_project, the
\* invocation ends, test_project is not run and no path is returned.
C3_FilesystemFaultPropagates ==
    \A p \in procs :
        MaterializationFaults(p) # {} =>
            /\ exc[p] = "FilesystemFault"
            /\ pc[p] \in {"main_unwind", "exited"}
            /\ ~SmokeStarted(p)
            /\ project_path[p] = NoPath
            /\ Cardinality(MaterializationFaults(p)) = 1

\* C3 witness: the write of README.md failed after the other two files
\* were written, and the exception is leaving create_project
C3_Witness ==
    \E p \in procs :
        /\ pc[p] = "main_unwind"
        /\ \E fl \in faults[p] : fl.step = WritePc("README.md")
        /\ {"main.py", "requirements.txt"} \subseteq fs.present

\* C4: once the three files are written, no failure of a step of
\* test_project leaves it: no exception is in flight, the invocation stays
\* on the normal path, and create_project returns the project path.
C4_SmokeFailureNeverAborts ==
    \A p \in procs :
        FilesWritten(p) =>
            /\ exc[p] = "None"
            /\ pc[p] \in {"test_project", "test_compile", "venv", "pip", "import",
                          "test_return", "main_print", "exited"}
            /\ pc[p] \in {"main_print", "exited"} =>
                   project_path[p] = "output/robust_task_manager"

\* C4 witness: the source re-validation of test_project failed, and
\* create_project returned the path all the same
C4_Witness ==
    \E p \in procs :
        /\ pc[p] = "exited"
        /\ project_path[p] # NoPath
        /\ \E fl \in faults[p] : fl.step = "syntax"

\* C5 as stated: the process always exits with status 0; taken here only
\* for the runs in which the generator was constructed.
C5_AlwaysExitsZero ==
    \A p \in procs :
        pc[p] = "exited" /\ Printed(p, "Generator ready") => exit_status[p] = Exit0

\* C5 as amended: the process exits with status 0 exactly when neither the
\* construction of the generator nor a filesystem call of create_project
\* failed; the failures of the model call, of the validation and of the
\* smoke test are then each reported on standard output.
C5_ExitsZeroUnlessFatal ==
    \A p \in procs :
        pc[p] = "exited" =>
            /\ exit_status[p] = Exit0 <=> (\A fl \in faults[p] : fl.kind \notin FatalKinds)
            /\ exit_status[p] # Exit0 => exit_status[p] = Exit1
            /\ exit_status[p] = Exit0 => \A fl \in faults[p] : Printed(p, WarningLine(fl))

\* C5 witness: the model call and a smoke-test step both failed, and the
\* process exited 0
C5_Witness ==
    \E p \in procs :
        /\ Completed(p)
        /\ \E fl \in faults[p] : fl.step = "invoke"
        /\ \E fl \in faults[p] : fl.step = "pip"

\* the code bodies claim C6 is about: some code, without delimiters
PlainBodies ==
    {b \in BodiesUpTo(MaxBody) : Strip(b) # <<>> /\ \A i \in 1..Len(b) : b[i] # BQ}

\* the model outputs claim C6 is about, each with its code body: an
\* optional reasoning block, optional blank lines after it, a leading
\* delimiter bare or tagged python, the body, a trailing delimiter
FencedOutputs ==
    {[raw |-> t[1] \o t[2] \o o \o b \o <<NL>> \o Fence, body |-> b] :
        t \in {<<<<>>, <<>>>>} \cup ({ThinkBlock} \X Gaps),
        o \in {Fence \o <<NL>>, FencePython \o <<NL>>},
        b \in PlainBodies}

\* C6 as stated: for such an output the cleaning yields the trimmed body.
C6_FencedOutputYieldsBody ==
    \A p \in procs :
        pc[p] = "validate" =>
            \A out \in FencedOutputs :
                response[p] = out.raw => enhanced_code[p] = Strip(out.body)

\* C7 as stated: cleaning a cleaned text changes nothing.
C7_SanitizeIdempotent ==
    \A p \in procs :
        pc[p] = "validate" => Sanitize(enhanced_code[p]) = enhanced_code[p]

\* C8 as stated, in its weakest reading: when test_project has returned,
\* every failure of one of its steps was reported on a line that carries
\* the diagnostic text of that step (the captured stderr of its subprocess).
C8_EveryFailureReportedWithStderr ==
    \A p \in procs :
        pc[p] \in {"test_return", "main_print", "exited"} =>
            \A fl \in faults[p] :
                fl.step \in SmokeSteps =>
                    \E i \in 1..Len(stdout[p]) : stdout[p][i].detail = fl.diag

\* C9 as stated: nothing of the project, the directory included, is on
\* disk before enhance_with_llm has returned the final source.
C9_NoFilesystemEffectBeforeEnhancement ==
    \A p \in procs :
        /\ (fs.dir \/ fs.present # {}) => final_code[p] # NoText
        /\ SmokeStarted(p) => FilesWritten(p)

\* C9 as amended: the directory is made first, before the template is
\* built; the template before the enhancement; none of the three files is
\* opened or written before enhance_with_llm has returned the final source;
\* test_project starts only after all three files are written.
C9_OrderOfComponents ==
    \A p \in procs :
        /\ base_code[p] # NoText => fs.dir
        /\ final_code[p] # NoText => base_code[p] # NoText
        /\ fs.present # {} => final_code[p] # NoText
        /\ SmokeStarted(p) => FilesWritten(p) /\ fs.present = Files

\* C9 witness: the directory is on disk while the model is still to be
\* called
C9_Witness ==
    \E p \in procs :
        /\ pc[p] = "invoke"
        /\ fs.dir
        /\ fs.present = {}

\* C10 as stated: when both invocations have completed, the three files on
\* disk are those of one and the same invocation, and each invocation's
\* test_project read the source that invocation wrote; taken here only for
\* the runs in which nothing failed and no write of a file fell between
\* another invocation's open and write of it.
C10_LastWriterWinsWholeProject ==
    /\ \A p \in procs : Completed(p) /\ faults[p] = {}
    /\ \A f \in Files : lastWrite[f].clean
    =>
        /\ \E w \in procs : \A f \in Files : fs.files[f] = Content(w, f)
        /\ \A p \in procs : code[p] # NoText => code[p] = final_code[p]

\* C10 as amended: when both invocations have completed, each file by
\* itself is what the invocation that wrote it last wrote, provided no
\* other invocation wrote that file between that invocation's open and its
\* write; requirements.txt is the fixed manifest in every case.
C10_LastWriterWinsPerFile ==
    (\A p \in procs : Completed(p)) =>
        /\ \A f \in Files :
               /\ lastWrite[f].writer \in procs
               /\ lastWrite[f].clean => fs.files[f] = Content(lastWrite[f].writer, f)
        /\ fs.files["requirements.txt"] = requirements_txt

\* C10 witness: both invocations completed, main.py is one invocation's
\* and README.md the other's, each written undisturbed, and one
\* invocation's test_project read the other's source
C10_Witness ==
    /\ \A p \in procs : Completed(p)
    /\ lastWrite["main.py"].writer # lastWrite["README.md"].writer
    /\ lastWrite["main.py"].clean
    /\ lastWrite["README.md"].clean
    /\ final_code[1] # final_code[2]
    /\ \E p \in procs : code[p] # NoText /\ code[p] # final_code[p]

====
